---- MODULE Spec2Model ----
(***************************************************************************)
(* Entity resolution pipeline of index.py: the field normalizers, the      *)
(* per-country blocking and the single-pass incremental grouping of        *)
(* group_companies, and the run() driver that applies them to the frame.   *)
(*                                                                         *)
(* Python strings are sequences of one-character strings.  A null cell of  *)
(* the frame (None) is the one-element sequence None, which no string of   *)
(* characters equals.                                                      *)
(***************************************************************************)
EXTENDS Integers, Sequences, FiniteSets, TLC

(***************************************************************************)
(* Characters and the str methods the normalizers call.                    *)
(***************************************************************************)
None == <<"None">>

ValueError == <<"ValueError">>

LowerSeq == <<"a","b","c","d","e","f","g","h","i","j","k","l","m",
              "n","o","p","q","r","s","t","u","v","w","x","y","z">>

UpperSeq == <<"A","B","C","D","E","F","G","H","I","J","K","L","M",
              "N","O","P","Q","R","S","T","U","V","W","X","Y","Z">>

Lowers == {LowerSeq[i] : i \in 1..26}

Uppers == {UpperSeq[i] : i \in 1..26}

Digits == {"0","1","2","3","4","5","6","7","8","9"}

Whitespace == {" "}

LowerMap == [c \in Uppers |-> LowerSeq[CHOOSE i \in 1..26 : UpperSeq[i] = c]]

UpperMap == [c \in Lowers |-> UpperSeq[CHOOSE i \in 1..26 : LowerSeq[i] = c]]

LowerChar(c) == IF c \in Uppers THEN LowerMap[c] ELSE c

UpperChar(c) == IF c \in Lowers THEN UpperMap[c] ELSE c

IsAlnum(c) == c \in Lowers \cup Uppers \cup Digits

IsWord(c) == IsAlnum(c) \/ c = "_"

lower(s) == [i \in 1..Len(s) |-> LowerChar(s[i])]

upper(s) == [i \in 1..Len(s) |-> UpperChar(s[i])]

Slice(s, a, b) == IF a > b THEN <<>> ELSE SubSeq(s, a, b)

OccursAt(p, s, i) ==
    /\ i >= 1
    /\ i + Len(p) - 1 <= Len(s)
    /\ \A k \in 1..Len(p) : s[i + k - 1] = p[k]

\* s.find(p, i): the first index at or after i where p occurs, 0 when none
Find(p, s, i) ==
    LET hits == {j \in i..(Len(s) - Len(p) + 1) : OccursAt(p, s, j)}
    IN  IF hits = {} THEN 0 ELSE CHOOSE j \in hits : \A h \in hits : j <= h

\* p in s
Contains(p, s) == Find(p, s, 1) # 0

startswith(s, p) == OccursAt(p, s, 1)

\* s.split(p)[0]
SplitFirst(s, p) ==
    LET j == Find(p, s, 1)
    IN  IF j = 0 THEN s ELSE Slice(s, 1, j - 1)

\* len(s.split(p))
SplitCount(s, p) ==
    LET RECURSIVE cnt(_)
        cnt(i) == LET j == Find(p, s, i)
                  IN  IF j = 0 THEN 1 ELSE 1 + cnt(j + Len(p))
    IN  cnt(1)

\* s.split(p)[1], for a string with at least one occurrence of p
SplitSecond(s, p) ==
    LET j == Find(p, s, 1)
        k == Find(p, s, j + Len(p))
    IN  IF k = 0 THEN Slice(s, j + Len(p), Len(s))
                 ELSE Slice(s, j + Len(p), k - 1)

\* s.replace(p, ""): non-overlapping occurrences, left to right
Remove(s, p) ==
    LET RECURSIVE rem(_)
        rem(i) == IF i > Len(s) THEN <<>>
                  ELSE IF OccursAt(p, s, i) THEN rem(i + Len(p))
                  ELSE <<s[i]>> \o rem(i + 1)
    IN  rem(1)

\* s.strip(chars)
StripSet(s, chars) ==
    LET keep == {i \in 1..Len(s) : s[i] \notin chars}
    IN  IF keep = {} THEN <<>>
        ELSE LET a == CHOOSE i \in keep : \A j \in keep : i <= j
                 b == CHOOSE i \in keep : \A j \in keep : i >= j
             IN  SubSeq(s, a, b)

strip(s) == StripSet(s, Whitespace)

\* re.sub(r'\s+', ' ', s)
CollapseSpaces(s) ==
    LET RECURSIVE col(_)
        col(i) == IF i > Len(s) THEN <<>>
                  ELSE IF s[i] \in Whitespace
                       THEN IF i > 1 /\ s[i - 1] \in Whitespace
                            THEN col(i + 1)
                            ELSE <<" ">> \o col(i + 1)
                  ELSE <<s[i]>> \o col(i + 1)
    IN  col(1)

IsKeptInName(c) == IsAlnum(c) \/ c = " "

IsDigit(c) == c \in Digits

IsEmailChar(c) == c \in Lowers \cup Digits \cup {"@", ".", "_", "-"}

(***************************************************************************)
(* normalize_company_name: the alternation of legal terms, in the order of *)
(* the list.  w is the literal part of a term in upper case, opt says the  *)
(* term ends in an optional period (\.?) before its closing \b.            *)
(***************************************************************************)
legal_terms == <<
    [w |-> <<"S","R","L">>, opt |-> FALSE],
    [w |-> <<"S",".","R",".","L">>, opt |-> TRUE],
    [w |-> <<"L","L","C">>, opt |-> FALSE],
    [w |-> <<"L",".","L",".","C">>, opt |-> TRUE],
    [w |-> <<"P","V","T">>, opt |-> FALSE],
    [w |-> <<"P",".","V",".","T">>, opt |-> TRUE],
    [w |-> <<"I","N","C">>, opt |-> FALSE],
    [w |-> <<"I","N","C">>, opt |-> TRUE],
    [w |-> <<"S","A">>, opt |-> FALSE],
    [w |-> <<"S",".","A">>, opt |-> TRUE],
    [w |-> <<"S","C">>, opt |-> FALSE],
    [w |-> <<"S",".","C">>, opt |-> TRUE],
    [w |-> <<"G","M","B","H">>, opt |-> FALSE],
    [w |-> <<"G",".","M",".","B",".","H">>, opt |-> TRUE],
    [w |-> <<"L","T","D">>, opt |-> FALSE],
    [w |-> <<"L",".","T",".","D">>, opt |-> TRUE],
    [w |-> <<"L","I","M","I","T","E","D">>, opt |-> FALSE],
    [w |-> <<"C","O","R","P">>, opt |-> FALSE],
    [w |-> <<"C","O","R","P","O","R","A","T","I","O","N">>, opt |-> FALSE],
    [w |-> <<"P","L","C">>, opt |-> FALSE],
    [w |-> <<"N",".","V">>, opt |-> TRUE],
    [w |-> <<"A","G">>, opt |-> FALSE],
    [w |-> <<"O","Y">>, opt |-> FALSE],
    [w |-> <<"A","B">>, opt |-> FALSE],
    [w |-> <<"B","V">>, opt |-> FALSE],
    [w |-> <<"A","S">>, opt |-> FALSE],
    [w |-> <<"S","A","S">>, opt |-> FALSE],
    [w |-> <<"S",".","A",".","S">>, opt |-> TRUE],
    [w |-> <<"S",".","P",".","A">>, opt |-> TRUE],
    [w |-> <<"K",".","K">>, opt |-> TRUE],
    [w |-> <<"L",".","L",".","P">>, opt |-> TRUE],
    [w |-> <<"L","L","P">>, opt |-> FALSE],
    [w |-> <<"C","O">>, opt |-> FALSE],
    [w |-> <<"C","O">>, opt |-> TRUE],
    [w |-> <<"O","R","G">>, opt |-> FALSE],
    [w |-> <<"O","R","G">>, opt |-> TRUE] >>

\* Length of the match of one term at position i of s, 0 when it does not
\* match there.  Every term starts and ends with a letter, so the opening \b
\* needs a non-word character (or the start) before i; the closing \b needs
\* a word character after a consumed period and a non-word character (or
\* the end) after the last letter.  re.IGNORECASE compares letters by case.
TermMatchLen(t, s, i) ==
    LET n == Len(t.w)
        e == i + n
    IN  IF /\ i + n - 1 <= Len(s)
           /\ (i = 1 \/ ~IsWord(s[i - 1]))
           /\ \A k \in 1..n : UpperChar(s[i + k - 1]) = t.w[k]
        THEN IF t.opt /\ e + 1 <= Len(s) /\ s[e] = "." /\ IsWord(s[e + 1])
             THEN n + 1
             ELSE IF e > Len(s) \/ ~IsWord(s[e]) THEN n ELSE 0
        ELSE 0

\* Length of the match of the compiled alternation at position i: the first
\* term of the list that matches there.
PatternMatchLen(s, i) ==
    LET hits == {t \in 1..Len(legal_terms) : TermMatchLen(legal_terms[t], s, i) > 0}
    IN  IF hits = {} THEN 0
        ELSE TermMatchLen(legal_terms[CHOOSE t \in hits : \A u \in hits : t <= u], s, i)

\* pattern.sub('', text)
SubLegalTerms(s) ==
    LET RECURSIVE sub(_)
        sub(i) == IF i > Len(s) THEN <<>>
                  ELSE LET m == PatternMatchLen(s, i)
                       IN  IF m > 0 THEN sub(i + m)
                           ELSE <<s[i]>> \o sub(i + 1)
    IN  sub(1)

NameLimit == 50

\* normalize_company_name without the .strip() of line 38
normalize_company_name_unstripped(text) ==
    IF text = None THEN <<>>
    ELSE LET t1 == SplitFirst(text, <<"|">>)
             t2 == SubLegalTerms(t1)
             t3 == SelectSeq(t2, IsKeptInName)
             t4 == lower(CollapseSpaces(t3))
         IN  Slice(t4, 1, IF Len(t4) < NameLimit THEN Len(t4) ELSE NameLimit)

normalize_company_name(text) ==
    IF text = None THEN <<>>
    ELSE LET t1 == SplitFirst(text, <<"|">>)
             t2 == SubLegalTerms(t1)
             t3 == SelectSeq(t2, IsKeptInName)
             t4 == lower(strip(CollapseSpaces(t3)))
         IN  Slice(t4, 1, IF Len(t4) < NameLimit THEN Len(t4) ELSE NameLimit)

normalize_primary_phone(phone_number) == SelectSeq(phone_number, IsDigit)

\* email.split('@') is unpacked into two names: any other number of parts
\* raises ValueError
normalize_email(email) ==
    IF email = None \/ email = <<>> THEN <<>>
    ELSE LET e == lower(email)
         IN  IF Contains(<<"@","g","m","a","i","l",".","c","o","m">>, e)
             THEN IF SplitCount(e, <<"@">>) # 2 THEN ValueError
                  ELSE LET at == Find(<<"@">>, e, 1)
                           local == Remove(Slice(e, 1, at - 1), <<".">>)
                       IN  SelectSeq(local \o Slice(e, at, Len(e)), IsEmailChar)
             ELSE SelectSeq(e, IsEmailChar)

FacebookCom == <<"f","a","c","e","b","o","o","k",".","c","o","m">>

ProfilePhp == <<"p","r","o","f","i","l","e",".","p","h","p">>

normalize_facebook_url(url) ==
    IF url = None \/ ~Contains(FacebookCom, url) THEN <<>>
    ELSE LET u1 == lower(strip(url))
             u2 == SplitFirst(SplitFirst(u1, <<"?">>), <<"#">>)
             u3 == Remove(Remove(u2, <<"h","t","t","p","s",":","/","/">>),
                          <<"h","t","t","p",":","/","/">>)
             u4 == Remove(Remove(u3, <<"w","w","w",".">>), <<"m",".">>)
             sep == FacebookCom \o <<"/">>
         IN  IF SplitCount(u4, sep) < 2 THEN <<>>
             ELSE LET username == StripSet(SplitSecond(u4, sep), {"/"})
                  IN  IF startswith(username, ProfilePhp) THEN <<>> ELSE username

(***************************************************************************)
(* The library calls of the normalizers.  tldextract.extract(url).domain   *)
(* is the label left of the public suffix of the host; the suffix list is  *)
(* cut down to PublicSuffixes, and the hosts of the model are lower case.   *)
(* phonenumbers.parse needs a leading "+" when no default region is given, *)
(* and the region of a number follows its country calling code; the        *)
(* library's length validation is not modelled.                            *)
(***************************************************************************)
SchemeSep == <<":","/","/">>

Labels(s) ==
    LET RECURSIVE lab(_)
        lab(i) == LET j == Find(<<".">>, s, i)
                  IN  IF j = 0 THEN <<Slice(s, i, Len(s))>>
                      ELSE <<Slice(s, i, j - 1)>> \o lab(j + 1)
    IN  lab(1)

PublicSuffixes == {<<"c","o","m">>, <<"i","o">>}

ExtractDomain(url) ==
    LET j    == Find(SchemeSep, url, 1)
        rest == IF j = 0 THEN url ELSE Slice(url, j + 3, Len(url))
        host == SplitFirst(SplitFirst(SplitFirst(rest, <<"/">>), <<"?">>), <<"#">>)
        ls   == Labels(host)
        n    == Len(ls)
    IN  IF ls[n] \in PublicSuffixes
        THEN IF n >= 2 THEN ls[n - 1] ELSE <<>>
        ELSE ls[n]

normalize_domain(url) ==
    IF url = None THEN <<>> ELSE ExtractDomain(url)

Unknown == <<"u","n","k","n","o","w","n">>

CallingCodes == << [cc |-> <<"+","1">>,     region |-> <<"U","S">>],
                   [cc |-> <<"+","4","0">>, region |-> <<"R","O">>] >>

get_country_code_by_phone(phone_number) ==
    IF phone_number = None THEN Unknown
    ELSE LET hits == {k \in 1..Len(CallingCodes) :
                          startswith(phone_number, CallingCodes[k].cc)}
         IN  IF hits = {} THEN Unknown
             ELSE CallingCodes[CHOOSE k \in hits : TRUE].region

normalize_country_code(row) ==
    IF row.main_country_code = None
    THEN get_country_code_by_phone(row.primary_phone)
    ELSE upper(strip(row.main_country_code))

(***************************************************************************)
(* The frame read from the parquet file: up to MaxRecords rows drawn from  *)
(* Rows.                                                                   *)
(***************************************************************************)
MaxRecords == 3

MicrosoftCorp == <<"M","i","c","r","o","s","o","f","t"," ","C","o","r","p">>

MICROSOFT_CORPORATION ==
    <<"M","I","C","R","O","S","O","F","T"," ","C","O","R","P","O","R","A","T","I","O","N">>

Microsft == <<"M","i","c","r","o","s","f","t">>

MicroSoftInc == <<"M","i","c","r","o"," ","S","o","f","t"," ","I","n","c",".">>

microsoft_com == <<"h","t","t","p","s",":","/","/","w","w","w",".",
                   "m","i","c","r","o","s","o","f","t",".","c","o","m">>

msft_io == <<"m","s","f","t",".","i","o">>

phone_us == <<"+","1","4","2","5">>

phone_local == <<"4","0","2","1">>

fb_page == <<"h","t","t","p","s",":","/","/","w","w","w",".",
             "f","a","c","e","b","o","o","k",".","c","o","m","/",
             "M","i","c","r","o","s","o","f","t">>

fb_profile == <<"h","t","t","p","s",":","/","/","w","w","w",".",
                "f","a","c","e","b","o","o","k",".","c","o","m","/",
                "p","r","o","f","i","l","e",".","p","h","p","?","i","d","=","1","2","3">>

email_gmail == <<"J",".","D","o","e","@","G","m","a","i","l",".","c","o","m">>

Row(n, w, p, c, e, f) ==
    [company_name |-> n, website_domain |-> w, primary_phone |-> p,
     main_country_code |-> c, primary_email |-> e, facebook_url |-> f]

Rows == {
    Row(MicrosoftCorp, microsoft_com, phone_us, <<"u","s">>, email_gmail, fb_page),
    Row(MICROSOFT_CORPORATION, None, None, <<" ","U","S">>, None, fb_profile),
    Row(Microsft, microsoft_com, phone_us, None, <<>>, fb_profile),
    Row(MicroSoftInc, <<>>, <<>>, <<"u","s">>, None, <<>>),
    Row(Microsft, None, None, <<"U","S">>, None, None),
    Row(Microsft, msft_io, phone_local, None, None, None) }

Frames == UNION {[1..n -> Rows] : n \in 1..MaxRecords}

(***************************************************************************)
(* fuzz.token_sort_ratio: a symmetric score, 100 on equal strings.  Its    *)
(* value on two different names of the frame is an input of the model,     *)
(* drawn from ScoreValues and held in ratio.                               *)
(***************************************************************************)
ScoreValues == {30, 50, 70, 90, 92, 95, 99}

NameOf == [r \in Rows |-> normalize_company_name(r.company_name)]

NamePairs(frame) ==
    {{NameOf[frame[i]], NameOf[frame[j]]} : i \in DOMAIN frame, j \in DOMAIN frame}
        \ {{NameOf[r]} : r \in Rows}

VARIABLES df, ratio, pc, group_id_counter, countries, country, subset, seen,
          via, grouped_entities, fn, arg, out

nvars == <<fn, arg, out>>

vars == <<df, ratio, pc, group_id_counter, countries, country, subset, seen,
          via, grouped_entities, fn, arg, out>>

token_sort_ratio(s1, s2) == IF s1 = s2 THEN 100 ELSE ratio[{s1, s2}]

Init ==
    /\ df \in Frames
    /\ ratio \in [NamePairs(df) -> ScoreValues]
    /\ pc = "run"
    /\ group_id_counter = 0
    /\ countries = <<>>
    /\ country = None
    /\ subset = <<>>
    /\ seen = <<>>
    /\ via = [i \in DOMAIN df |-> -1]
    /\ grouped_entities = None
    /\ fn = "none"
    /\ arg = None
    /\ out = <<>>

(***************************************************************************)
(* run(), lines 158-162: the five normalized columns are inserted.         *)
(***************************************************************************)
NormalizedColumns(row) ==
    [website_domain_normalized |-> normalize_domain(row.website_domain),
     company_name_normalized   |-> normalize_company_name(row.company_name),
     country_code_normalized   |-> normalize_country_code(row),
     primary_email_normalized  |-> normalize_email(row.primary_email),
     facebook_url_normalized   |-> normalize_facebook_url(row.facebook_url)]

\* the columns of each row of Rows, computed once
RowNorm == [r \in Rows |-> NormalizedColumns(r)]

Normalize ==
    /\ pc = "run"
    /\ df' = [i \in DOMAIN df |-> df[i] @@ RowNorm[df[i]]]
    /\ pc' = "group_companies"
    /\ UNCHANGED <<ratio, group_id_counter, countries, country, subset, seen,
                   via, grouped_entities, nvars>>

\* Series.unique(): the values in order of first appearance
Unique(col) ==
    LET RECURSIVE uni(_)
        uni(i) == IF i > Len(col) THEN <<>>
                  ELSE IF \E j \in 1..(i - 1) : col[j] = col[i] THEN uni(i + 1)
                  ELSE <<col[i]>> \o uni(i + 1)
    IN  uni(1)

\* the block selected on the raw main_country_code column
SubsetByRawCode(c) ==
    LET RECURSIVE sel(_)
        sel(i) == IF i > Len(df) THEN <<>>
                  ELSE IF df[i].main_country_code = c
                       THEN <<i>> \o sel(i + 1)
                       ELSE sel(i + 1)
    IN  sel(1)

\* the index of df[df["country_code_normalized"] == c], in frame order
Subset(c) ==
    LET RECURSIVE sel(_)
        sel(i) == IF i > Len(df) THEN <<>>
                  ELSE IF df[i].country_code_normalized = c
                       THEN <<i>> \o sel(i + 1)
                       ELSE sel(i + 1)
    IN  sel(1)

\* group_companies, lines 109-113
GroupInit ==
    /\ pc = "group_companies"
    /\ df' = [i \in DOMAIN df |-> df[i] @@ [group_id |-> -1]]
    /\ group_id_counter' = 0
    /\ countries' = Unique([i \in DOMAIN df |-> df[i].country_code_normalized])
    /\ pc' = "blocks"
    /\ UNCHANGED <<ratio, country, subset, seen, via, grouped_entities, nvars>>

\* seen created once, before the loop over the countries
NextBlockKeepsSeen ==
    /\ pc = "blocks"
    /\ subset = <<>>
    /\ countries # <<>>
    /\ country' = Head(countries)
    /\ countries' = Tail(countries)
    /\ subset' = Subset(Head(countries))
    /\ UNCHANGED <<df, ratio, pc, group_id_counter, seen, via, grouped_entities, nvars>>

\* lines 113-116: the next country block starts with an empty seen
NextBlock ==
    /\ pc = "blocks"
    /\ subset = <<>>
    /\ countries # <<>>
    /\ country' = Head(countries)
    /\ countries' = Tail(countries)
    /\ subset' = Subset(Head(countries))
    /\ seen' = <<>>
    /\ UNCHANGED <<df, ratio, pc, group_id_counter, via, grouped_entities, nvars>>

\* truth value of a cell or of a normalized string
Truthy(v) == v # None /\ v # <<>>

\* the tiers with >= 90 for the unconditional one
TierInclusive(score, domain, phone, facebook_URL, e) ==
    IF score >= 90 THEN 1
    ELSE IF 70 < score /\ score <= 90 /\ Truthy(domain) /\ domain = e.domain THEN 2
    ELSE IF /\ 30 < score
            /\ score <= 70
            /\ \/ Truthy(phone) /\ phone = e.phone
               \/ Truthy(facebook_URL) /\ facebook_URL = e.facebook_URL
         THEN 3
    ELSE 0

\* the tiers with the top one asking for the same domain as well
TierTopNeedsDomain(score, domain, phone, facebook_URL, e) ==
    IF score > 90 /\ domain = e.domain THEN 1
    ELSE IF 70 < score /\ score <= 90 /\ Truthy(domain) /\ domain = e.domain THEN 2
    ELSE IF /\ 30 < score
            /\ score <= 70
            /\ \/ Truthy(phone) /\ phone = e.phone
               \/ Truthy(facebook_URL) /\ facebook_URL = e.facebook_URL
         THEN 3
    ELSE 0

\* the tiers comparing the corroborating fields without testing them first
TierNoTruthiness(score, domain, phone, facebook_URL, e) ==
    IF score > 90 THEN 1
    ELSE IF 70 < score /\ score <= 90 /\ domain = e.domain THEN 2
    ELSE IF /\ 30 < score
            /\ score <= 70
            /\ \/ phone = e.phone
               \/ facebook_URL = e.facebook_URL
         THEN 3
    ELSE 0

\* lines 134-148: the tier by which a record joins the group of one seen
\* entry, 0 when it does not
Tier(score, domain, phone, facebook_URL, e) ==
    IF score > 90 THEN 1
    ELSE IF 70 < score /\ score <= 90 /\ Truthy(domain) /\ domain = e.domain THEN 2
    ELSE IF /\ 30 < score
            /\ score <= 70
            /\ \/ Truthy(phone) /\ phone = e.phone
               \/ Truthy(facebook_URL) /\ facebook_URL = e.facebook_URL
         THEN 3
    ELSE 0

\* tier of record idx against the entry at position k of the dict s
TierAt(idx, s, k) ==
    Tier(token_sort_ratio(df[idx].company_name_normalized, s[k].name),
         df[idx].website_domain_normalized, df[idx].primary_phone,
         df[idx].facebook_url, s[k])

\* the scan without its break statements: the last matching entry is kept
LastMatch(idx, s) ==
    LET hits == {k \in 1..Len(s) : TierAt(idx, s, k) > 0}
    IN  IF hits = {} THEN 0 ELSE CHOOSE k \in hits : \A h \in hits : k >= h

\* lines 131-148: position of the entry the scan of seen.items() breaks on,
\* 0 when the loop runs to its end
FirstMatch(idx, s) ==
    LET hits == {k \in 1..Len(s) : TierAt(idx, s, k) > 0}
    IN  IF hits = {} THEN 0 ELSE CHOOSE k \in hits : \A h \in hits : k <= h

\* seen[name] = entry: a new key goes last, an existing key keeps its place
DictSet(s, e) ==
    IF \E k \in 1..Len(s) : s[k].name = e.name
    THEN [k \in 1..Len(s) |-> IF s[k].name = e.name THEN e ELSE s[k]]
    ELSE Append(s, e)

\* the registration of line 151 done for a matched record too
JoinGroupRegisters ==
    /\ pc = "blocks"
    /\ subset # <<>>
    /\ LET idx == Head(subset)
           k   == FirstMatch(idx, seen)
       IN  /\ k # 0
           /\ df' = [df EXCEPT ![idx].group_id = seen[k].group_id]
           /\ via' = [via EXCEPT ![idx] = TierAt(idx, seen, k)]
           /\ seen' = DictSet(seen, [name |-> df[idx].company_name_normalized,
                                     group_id |-> seen[k].group_id,
                                     domain |-> df[idx].website_domain_normalized,
                                     phone |-> df[idx].primary_phone,
                                     facebook_URL |-> df[idx].facebook_url])
    /\ subset' = Tail(subset)
    /\ UNCHANGED <<ratio, pc, group_id_counter, countries, country,
                   grouped_entities, nvars>>

\* lines 124-148: the record joins the group of the first entry it matches
JoinGroup ==
    /\ pc = "blocks"
    /\ subset # <<>>
    /\ LET idx == Head(subset)
           k   == FirstMatch(idx, seen)
       IN  /\ k # 0
           /\ df' = [df EXCEPT ![idx].group_id = seen[k].group_id]
           /\ via' = [via EXCEPT ![idx] = TierAt(idx, seen, k)]
    /\ subset' = Tail(subset)
    /\ UNCHANGED <<ratio, pc, group_id_counter, countries, country, seen,
                   grouped_entities, nvars>>

\* the counter left as it is after a group is opened
NewGroupSameCounter ==
    /\ pc = "blocks"
    /\ subset # <<>>
    /\ LET idx == Head(subset)
       IN  /\ FirstMatch(idx, seen) = 0
           /\ seen' = DictSet(seen, [name |-> df[idx].company_name_normalized,
                                     group_id |-> group_id_counter,
                                     domain |-> df[idx].website_domain_normalized,
                                     phone |-> df[idx].primary_phone,
                                     facebook_URL |-> df[idx].facebook_url])
           /\ df' = [df EXCEPT ![idx].group_id = group_id_counter]
           /\ via' = [via EXCEPT ![idx] = 0]
    /\ subset' = Tail(subset)
    /\ UNCHANGED <<ratio, pc, group_id_counter, countries, country,
                   grouped_entities, nvars>>

\* lines 124-153: no entry matches, the record opens a group and is registered
NewGroup ==
    /\ pc = "blocks"
    /\ subset # <<>>
    /\ LET idx == Head(subset)
       IN  /\ FirstMatch(idx, seen) = 0
           /\ seen' = DictSet(seen, [name |-> df[idx].company_name_normalized,
                                     group_id |-> group_id_counter,
                                     domain |-> df[idx].website_domain_normalized,
                                     phone |-> df[idx].primary_phone,
                                     facebook_URL |-> df[idx].facebook_url])
           /\ df' = [df EXCEPT ![idx].group_id = group_id_counter]
           /\ via' = [via EXCEPT ![idx] = 0]
    /\ group_id_counter' = group_id_counter + 1
    /\ subset' = Tail(subset)
    /\ UNCHANGED <<ratio, pc, countries, country, grouped_entities, nvars>>

\* run(), lines 168-171: group_id becomes the leading column and the frame
\* is written out
Save ==
    /\ pc = "blocks"
    /\ subset = <<>>
    /\ countries = <<>>
    /\ grouped_entities' = df
    /\ pc' = "done"
    /\ UNCHANGED <<df, ratio, group_id_counter, countries, country, subset,
                   seen, via, nvars>>

Next == Normalize \/ GroupInit \/ NextBlock \/ JoinGroup \/ NewGroup \/ Save

Spec == Init /\ [][Next]_vars

(***************************************************************************)
(* The field normalizers on their own: one of them is applied to an input  *)
(* and then to its own result.                                             *)
(***************************************************************************)
MaxLen == 3

SeqsUpTo(A, n) == UNION {[1..k -> A] : k \in 0..n}

Cat3(A, B, C) == {a \o b \o c : a \in A, b \in B, c \in C}

gmail_com == <<"g","m","a","i","l",".","c","o","m">>

LongName == [i \in 1..51 |-> IF i = 50 THEN " " ELSE "a"]

CompanyNameInputs ==
    {None, MicrosoftCorp, MICROSOFT_CORPORATION, MicroSoftInc, LongName}
    \cup SeqsUpTo({"s", "A", " ", "-", "."}, MaxLen)
    \cup Cat3({<<"A","c","m","e">>, <<"a"," ","b">>},
              {<<" ">>, <<"-">>, <<","," ">>, <<" ","|"," ">>},
              {<<"C","o","r","p">>, <<"S",".","R",".","L",".">>, <<"S","-","R","-","L">>,
               <<"C","o",".">>, <<"A",".","G",".">>, <<"c","o","-","o","p">>})

PhoneInputs == {phone_us, phone_local} \cup SeqsUpTo({"+", "1", "7", " ", "-"}, MaxLen)

EmailInputs ==
    {None, email_gmail}
    \cup SeqsUpTo({"a", "B", ".", "@"}, MaxLen)
    \cup Cat3({<<"a">>, <<"a",".","b">>, <<"A",".","b","+","c">>},
              {<<"@">>, <<" ","@">>},
              {gmail_com, <<"G","m","a","i","l",".","c","o","m">>,
               <<"g","m"," ","a","i","l",".","c","o","m">>, <<"x",".","o","r","g">>,
               <<"b","@">> \o gmail_com, gmail_com \o <<".","x">>})

FacebookInputs ==
    {None, fb_page, fb_profile}
    \cup SeqsUpTo({"m", ".", "/", "f"}, MaxLen)
    \cup Cat3({<<>>, <<"h","t","t","p","s",":","/","/">>, <<"H","t","t","p",":","/","/">>},
              {FacebookCom, <<"w","w","w",".">> \o FacebookCom,
               <<"m",".">> \o FacebookCom, <<"f","b",".","c","o","m">>},
              {<<>>, <<"/">>, <<"/","a","c","m","e">>, <<"/","A","c","m","e","/">>,
               <<"/","t","e","a","m",".","x","?","r","=","1">>,
               <<"/","a","/","b","#","c">>, <<"/">> \o ProfilePhp \o <<"?","i","d","=","1">>,
               <<"/","w","w","w",".","m","/","x">>})

DomainInputs ==
    {None, microsoft_com, msft_io}
    \cup SeqsUpTo({"a", ".", "/"}, MaxLen)
    \cup Cat3({<<>>, <<"h","t","t","p","s",":","/","/">>},
              {<<>>, <<"w","w","w",".">>},
              Cat3({<<"a","c","m","e">>, <<"i","o">>, <<"c","o","m">>},
                   {<<>>, <<".","c","o","m">>, <<".","i","o">>},
                   {<<>>, <<"/","a","b","o","u","t">>}))

Normalizers == {"normalize_company_name", "normalize_primary_phone",
                "normalize_email", "normalize_facebook_url", "normalize_domain"}

NormInputs(f) ==
    CASE f = "normalize_company_name"  -> CompanyNameInputs
      [] f = "normalize_primary_phone" -> PhoneInputs
      [] f = "normalize_email"         -> EmailInputs
      [] f = "normalize_facebook_url"  -> FacebookInputs
      [] f = "normalize_domain"        -> DomainInputs

ApplyNormalizer(f, x) ==
    CASE f = "normalize_company_name"  -> normalize_company_name(x)
      [] f = "normalize_primary_phone" -> normalize_primary_phone(x)
      [] f = "normalize_email"         -> normalize_email(x)
      [] f = "normalize_facebook_url"  -> normalize_facebook_url(x)
      [] f = "normalize_domain"        -> normalize_domain(x)

InitNorm ==
    /\ fn \in Normalizers
    /\ arg \in NormInputs(fn)
    /\ out = <<>>
    /\ df = <<>>
    /\ ratio = <<>>
    /\ pc = "normalizers"
    /\ group_id_counter = 0
    /\ countries = <<>>
    /\ country = None
    /\ subset = <<>>
    /\ seen = <<>>
    /\ via = <<>>
    /\ grouped_entities = None

ApplyOnce ==
    /\ fn \in Normalizers
    /\ out = <<>>
    /\ out' = <<ApplyNormalizer(fn, arg)>>
    /\ UNCHANGED <<df, ratio, pc, group_id_counter, countries, country, subset,
                   seen, via, grouped_entities, fn, arg>>

\* the normalizer on its own result; a call that raised returned nothing
ApplyAgain ==
    /\ fn \in Normalizers
    /\ Len(out) = 1
    /\ out[1] # ValueError
    /\ out' = Append(out, ApplyNormalizer(fn, out[1]))
    /\ UNCHANGED <<df, ratio, pc, group_id_counter, countries, country, subset,
                   seen, via, grouped_entities, fn, arg>>

NextNorm == ApplyOnce \/ ApplyAgain

SpecNorm == InitNorm /\ [][NextNorm]_vars

(***************************************************************************)
(* group_companies as a function of the order in which the country blocks  *)
(* are visited: lines 113-153 run over the blocks of order, from counter 0 *)
(* and with group_id -1 everywhere.                                        *)
(***************************************************************************)
RECURSIVE ClusterBlock(_, _, _, _)
ClusterBlock(ids, s, counter, g) ==
    IF ids = <<>> THEN [g |-> g, counter |-> counter]
    ELSE LET idx == Head(ids)
             k   == FirstMatch(idx, s)
         IN  IF k # 0
             THEN ClusterBlock(Tail(ids), s, counter, [g EXCEPT ![idx] = s[k].group_id])
             ELSE ClusterBlock(Tail(ids),
                               DictSet(s, [name |-> df[idx].company_name_normalized,
                                           group_id |-> counter,
                                           domain |-> df[idx].website_domain_normalized,
                                           phone |-> df[idx].primary_phone,
                                           facebook_URL |-> df[idx].facebook_url]),
                               counter + 1, [g EXCEPT ![idx] = counter])

RECURSIVE ClusterBlocks(_, _, _)
ClusterBlocks(order, counter, g) ==
    IF order = <<>> THEN g
    ELSE LET r == ClusterBlock(Subset(Head(order)), <<>>, counter, g)
         IN  ClusterBlocks(Tail(order), r.counter, r.g)

GroupIdsInOrder(order) == ClusterBlocks(order, 0, [i \in DOMAIN df |-> -1])

(***************************************************************************)
(* Properties.                                                             *)
(***************************************************************************)
Founder(i) == via[i] = 0

Joined(i) == via[i] > 0

SameBlock(i, j) == df[i].country_code_normalized = df[j].country_code_normalized

Score(i, j) == token_sort_ratio(df[i].company_name_normalized,
                                df[j].company_name_normalized)

Empty(v) == v = None \/ v = <<>>

DomainCorroborates(j, f) ==
    /\ ~Empty(df[j].website_domain_normalized)
    /\ ~Empty(df[f].website_domain_normalized)
    /\ df[j].website_domain_normalized = df[f].website_domain_normalized

PhoneCorroborates(j, f) ==
    /\ ~Empty(df[j].primary_phone)
    /\ ~Empty(df[f].primary_phone)
    /\ df[j].primary_phone = df[f].primary_phone

FacebookCorroborates(j, f) ==
    /\ ~Empty(df[j].facebook_url)
    /\ ~Empty(df[f].facebook_url)
    /\ df[j].facebook_url = df[f].facebook_url

Satisfies(j, f) ==
    \/ Score(j, f) > 90
    \/ 70 < Score(j, f) /\ Score(j, f) <= 90 /\ DomainCorroborates(j, f)
    \/ /\ 30 < Score(j, f)
       /\ Score(j, f) <= 70
       /\ (PhoneCorroborates(j, f) \/ FacebookCorroborates(j, f))

\* the representatives record j was compared with: the founders of its block
\* that were processed before it
RepsBefore(j) == {f \in DOMAIN df : f < j /\ Founder(f) /\ SameBlock(f, j)}

\* the representatives whose group record j is in
RepsOf(j) == {f \in RepsBefore(j) : df[f].group_id = df[j].group_id}

\* C1: a record that joins a group joins the group of the oldest
\* representative of its block that satisfies a tier against it, whatever the
\* scores of later representatives and of other group members; with A a
\* representative, score(B,A) = 95, score(C,A) = 92 and score(C,B) = 99, and
\* no older representative matching C, C gets A's group id.
FirstMatchWins ==
    /\ \A j \in DOMAIN df : Joined(j) =>
          \E f \in RepsOf(j) :
              /\ Satisfies(j, f)
              /\ \A h \in RepsBefore(j) : h < f => ~Satisfies(j, h)
    /\ \A a \in DOMAIN df : \A b \in DOMAIN df : \A c \in DOMAIN df :
          ( /\ a < b /\ b < c
            /\ via[c] >= 0
            /\ Founder(a)
            /\ SameBlock(a, b) /\ SameBlock(a, c)
            /\ Score(b, a) = 95 /\ Score(c, a) = 92 /\ Score(c, b) = 99
            /\ \A h \in RepsBefore(a) : ~Satisfies(c, h) )
          => df[c].group_id = df[a].group_id

FirstMatchWitness ==
    /\ pc = "done"
    /\ \E a \in DOMAIN df : \E b \in DOMAIN df : \E c \in DOMAIN df :
          /\ a < b /\ b < c
          /\ SameBlock(a, b) /\ SameBlock(a, c)
          /\ Founder(a) /\ via[b] = 1 /\ via[c] = 1
          /\ Score(b, a) = 95 /\ Score(c, a) = 92 /\ Score(c, b) = 99
          /\ df[c].group_id = df[a].group_id

GroupIdTotality ==
    pc = "done" => \A i \in DOMAIN df : df[i].group_id >= 0

GroupIdTotalityWitness ==
    /\ pc = "done"
    /\ \E i \in DOMAIN df : \E j \in DOMAIN df : \E k \in DOMAIN df :
          /\ ~SameBlock(i, j)
          /\ Joined(k)
          /\ df[i].main_country_code = None

\* C4 as stated: two records of one block with the same normalized name end
\* in the same group, whatever precedes them.
SameNameSameGroup ==
    pc = "done" =>
        \A i \in DOMAIN df : \A j \in DOMAIN df :
            (SameBlock(i, j) /\ df[i].company_name_normalized = df[j].company_name_normalized)
            => df[i].group_id = df[j].group_id

\* C4 amended: two records of one block with the same normalized name end in
\* the same group when neither of them joined its group through the domain
\* tier or the phone/Facebook tier.
SameNameSameGroupUnlessCorroborated ==
    pc = "done" =>
        \A i \in DOMAIN df : \A j \in DOMAIN df :
            ( /\ SameBlock(i, j)
              /\ df[i].company_name_normalized = df[j].company_name_normalized
              /\ via[i] \in {0, 1}
              /\ via[j] \in {0, 1} )
            => df[i].group_id = df[j].group_id

SameNameWitness ==
    /\ pc = "done"
    /\ \E h \in DOMAIN df : \E i \in DOMAIN df : \E j \in DOMAIN df :
          /\ h < i /\ i < j
          /\ SameBlock(h, i) /\ SameBlock(h, j)
          /\ df[i].company_name = MicrosoftCorp
          /\ df[j].company_name = MICROSOFT_CORPORATION
          /\ df[i].company_name_normalized = df[j].company_name_normalized
          /\ df[i].website_domain_normalized # df[j].website_domain_normalized
          /\ df[i].group_id = df[j].group_id
          /\ df[h].group_id # df[i].group_id

MonotonicCounter ==
    /\ [](\A i \in DOMAIN df : \A j \in DOMAIN df :
            (Founder(i) /\ Founder(j) /\ i # j) => df[i].group_id # df[j].group_id)
    /\ [][\A i \in DOMAIN df : (via[i] # 0 /\ via'[i] = 0) =>
            \A h \in DOMAIN df : via[h] >= 0 => df'[i].group_id > df[h].group_id]_vars

MonotonicCounterWitness ==
    /\ pc = "done"
    /\ \E i \in DOMAIN df : \E j \in DOMAIN df : \E k \in DOMAIN df :
          /\ Founder(i) /\ Founder(j) /\ Founder(k)
          /\ i < j
          /\ SameBlock(i, j) /\ ~SameBlock(i, k)
          /\ df[i].group_id # df[j].group_id /\ df[k].group_id # df[i].group_id

\* C7 as stated: a record whose Facebook URL normalizes to the empty string
\* is in a third-tier group only through its phone.
EmptyHandleNeverMatchKey ==
    \A j \in DOMAIN df :
        (via[j] = 3 /\ df[j].facebook_url_normalized = <<>>) =>
            \E f \in RepsOf(j) : PhoneCorroborates(j, f)

\* C8 as stated: every normalizer is idempotent, f(f(x)) = f(x)
NormalizationIdempotent ==
    Len(out) = 2 => out[2] = out[1]

GmailAddress == <<"@">> \o gmail_com

\* C8 amended: normalize_primary_phone is idempotent; a result of
\* normalize_facebook_url is a fixed point exactly when it is empty, a result
\* of normalize_email exactly when it has no "@gmail.com" or has one "@" and
\* no period before it, a result of normalize_company_name exactly when it
\* holds no legal term as a whole word and does not end in a space.
IdempotentWhereCanonical ==
    Len(out) = 2 =>
        /\ fn = "normalize_primary_phone" => out[2] = out[1]
        /\ fn = "normalize_facebook_url" => (out[2] = out[1] <=> out[1] = <<>>)
        /\ fn = "normalize_email" =>
              (out[2] = out[1] <=>
                  \/ ~Contains(GmailAddress, out[1])
                  \/ /\ SplitCount(out[1], <<"@">>) = 2
                     /\ ~Contains(<<".">>, SplitFirst(out[1], <<"@">>)))
        /\ fn = "normalize_company_name" =>
              (out[2] = out[1] <=>
                  /\ \A i \in 1..Len(out[1]) : PatternMatchLen(out[1], i) = 0
                  /\ (out[1] = <<>> \/ out[1][Len(out[1])] # " "))

IdempotentWitness ==
    /\ fn = "normalize_company_name"
    /\ arg = MICROSOFT_CORPORATION
    /\ Len(out) = 2
    /\ out[1] = <<"m","i","c","r","o","s","o","f","t">>
    /\ out[2] = out[1]

\* C9: while a block is processed, seen holds one entry for each group opened
\* in the block, in the order of opening, made of the founding record's name,
\* group id, domain, phone and Facebook URL; the founding record is the first
\* record of its group; an entry, once in seen, stays where it is.
EntryOf(f) == [name |-> df[f].company_name_normalized,
               group_id |-> df[f].group_id,
               domain |-> df[f].website_domain_normalized,
               phone |-> df[f].primary_phone,
               facebook_URL |-> df[f].facebook_url]

FoundersOf(c) == SelectSeq(Subset(c), Founder)

RepresentativeInvariant ==
    /\ [](pc = "blocks" =>
            /\ seen = [k \in 1..Len(FoundersOf(country)) |-> EntryOf(FoundersOf(country)[k])]
            /\ \A i \in DOMAIN df : Joined(i) => RepsOf(i) # {})
    /\ [][(pc = "blocks" /\ country' = country) =>
            /\ Len(seen) <= Len(seen')
            /\ \A k \in 1..Len(seen) : seen'[k] = seen[k]]_vars

RepresentativeWitness ==
    /\ pc = "blocks"
    /\ Len(seen) = 2
    /\ subset = <<>>
    /\ \E i \in DOMAIN df : Joined(i) /\ df[i].country_code_normalized = country

\* C10: whatever the order in which the country blocks are visited, two
\* records are in the same group exactly when they are in the run of the
\* program, and records of different blocks never are.
Orders(S) ==
    {o \in [1..Cardinality(S) -> S] : \A a, b \in 1..Cardinality(S) : a # b => o[a] # o[b]}

BlockOrderIndependent ==
    pc = "done" =>
        /\ \A o \in Orders({df[i].country_code_normalized : i \in DOMAIN df}) :
              LET g == GroupIdsInOrder(o)
              IN  \A i \in DOMAIN df : \A j \in DOMAIN df :
                      (g[i] = g[j]) <=> (df[i].group_id = df[j].group_id)
        /\ \A i \in DOMAIN df : \A j \in DOMAIN df :
              ~SameBlock(i, j) => df[i].group_id # df[j].group_id

BlockOrderWitness ==
    /\ pc = "done"
    /\ \E i \in DOMAIN df : \E j \in DOMAIN df : \E k \in DOMAIN df :
          /\ i < k /\ k < j
          /\ SameBlock(i, j) /\ ~SameBlock(i, k)
          /\ df[i].group_id = df[j].group_id
          /\ df[i].company_name_normalized = df[k].company_name_normalized

====
